---- MODULE Spec2Model ----
(***************************************************************************)
(* MCP server lifecycle manager: MCPService (mcp/service.py) orchestrating *)
(* the Catalog, the Environment Manager and the Configurator.              *)
(*                                                                         *)
(* The service is single-process and synchronous: every public operation  *)
(* is one atomic action.  The Catalog, the Environment Manager and the     *)
(* Configurator are modelled from their contracts; MCPService is modelled *)
(* statement by statement.                                                 *)
(*                                                                         *)
(* Strings that the code builds or rewrites (server names, paths, launch   *)
(* commands, error messages) are sequences of tokens, so that formatting   *)
(* and str.replace are computed rather than assumed.  Python None is the   *)
(* empty sequence for strings and a record with a false flag for objects.  *)
(***************************************************************************)
EXTENDS Integers, Sequences, FiniteSets, TLC

\* ------------------------------------------------------------------ bounds
\* Number of service calls explored from the empty installation.
MaxCalls == 3

\* Longest server name, in tokens, handed to _generate_server_command.
MaxNameLen == 3

\* ------------------------------------------------------------- vocabulary
condamcp == <<"condamcp">>
demo_server == <<"demo", "-", "server">>
no_such_server == <<"no", "-", "such">>

\* Catalog: the static registry of installable servers (names only).
Catalog == {condamcp, demo_server}

\* Server names a caller may pass: catalog names and one unknown name.
ServerNames == Catalog \cup {no_such_server}

\* ClientType values exercised (a subset of the closed enumeration).
ClientType == {"cursor", "vscode"}

\* workspace_path: None (global scope) or an absolute workspace directory.
NoWorkspace == <<>>
Workspaces == {NoWorkspace, <<"/work/proj">>}

\* client_name=None of list_installed_servers.
NoClient == "None"

BasePath == <<"~/.anaconda/mcp">>

\* -------------------------------------------------------------- the state
VARIABLES
    envs,   \* Environment Manager: server name -> InstalledEnvironment
    docs,   \* Configurator: <<client, workspace>> -> server name -> entry
    last,   \* the call that completed last: arguments, sub-results, result
    ncalls, \* number of calls completed so far
    ever,   \* <<server, client, workspace>> of every install that succeeded
    gen,    \* _generate_server_command on its own: arguments, commands made
    px,     \* the conda process with the plugin: configuration, patch, chat
    cc,     \* two install_server calls in flight: position, snapshot, result
    ca      \* the assist command and its CondaAssistant

svc_vars == <<envs, docs, last, ncalls, ever>>

vars == <<envs, docs, last, ncalls, ever, gen, px, cc, ca>>

NoEnv == [exists |-> FALSE, path |-> <<>>, updates |-> 0]

NoEntry == [present |-> FALSE, name |-> <<>>, environment_path |-> <<>>,
            command |-> <<>>, workspace_path |-> <<>>]

DocKeys == ClientType \X Workspaces

\* InstallationResult; NoResult for operations that return something else.
NoResult == [success |-> FALSE, server_name |-> <<>>, environment_path |-> <<>>,
             config_path |-> <<>>, error_message |-> <<>>]

InstallationResult(success, server_name, environment_path, config_path, error_message) ==
    [success |-> success, server_name |-> server_name,
     environment_path |-> environment_path, config_path |-> config_path,
     error_message |-> error_message]

\* The record of a call: op and arguments, the lower-layer calls it made in
\* order, their outcomes, the exception that escaped ("none" if it returned)
\* and the value returned (result / returned / listing by return type);
\* repeat: the call before it had the same op and arguments.
NoCall == [op |-> "none", server |-> <<>>, client |-> NoClient,
           workspace |-> NoWorkspace, calls |-> <<>>,
           create |-> "none", add |-> "none",
           config_removed |-> "none", env_removed |-> "none",
           raised |-> "none", result |-> NoResult, returned |-> FALSE,
           listing |-> {}, repeat |-> FALSE]

Call(op, server, client, workspace) ==
    [NoCall EXCEPT !.op = op, !.server = server, !.client = client,
                   !.workspace = workspace]

Bool(b) == IF b THEN "true" ELSE "false"

\* ---------------------------------------------------------------- Catalog
\* MCPCatalog.get_server_details: the ServerInfo or None (truthiness only).
get_server_details(server_name) == server_name \in Catalog

\* ---------------------------------------------------- Environment Manager
\* One subdirectory per server name under the base path.
EnvPath(server_name) == BasePath \o <<"/">> \o server_name

\* get(name) -> path or absent.
get_environment_path(e, server_name) ==
    IF e[server_name].exists THEN e[server_name].path ELSE <<>>

\* create(name, runtimeVersion): EnvironmentExistsError if present, else
\* provisions the directory; provisioning itself may fail (fault).
create_environment(e, server_name, fault) ==
    IF e[server_name].exists
    THEN [raised |-> "EnvironmentExistsError", path |-> <<>>, envs |-> e]
    ELSE IF fault
    THEN [raised |-> "OSError", path |-> <<>>, envs |-> e]
    ELSE [raised |-> "none", path |-> EnvPath(server_name),
          envs |-> [e EXCEPT ![server_name] =
                       [exists |-> TRUE, path |-> EnvPath(server_name),
                        updates |-> 0]]]

\* update(name): EnvironmentNotFoundError if absent, else bumps last-updated.
update_environment(e, server_name, fault) ==
    IF ~e[server_name].exists
    THEN [raised |-> "EnvironmentNotFoundError", envs |-> e]
    ELSE IF fault
    THEN [raised |-> "OSError", envs |-> e]
    ELSE [raised |-> "none",
          envs |-> [e EXCEPT ![server_name].updates = @ + 1]]

\* remove(name) -> bool: whether a removal occurred; never raises.
remove_environment(e, server_name) ==
    [removed |-> e[server_name].exists,
     envs |-> [e EXCEPT ![server_name] = NoEnv]]

\* ----------------------------------------------------------- Configurator
\* Path of the document of (client, workspace): per-client default path in
\* global scope, a path rooted at the workspace otherwise.
GetConfigPath(client_type, workspace_path) ==
    IF workspace_path = NoWorkspace
    THEN <<"~/.config/", client_type, "/mcp.json">>
    ELSE workspace_path \o <<"/.", client_type, "/mcp.json">>

\* addOrReplace: upsert keyed by server name; outcome is "true" (written),
\* "false" (write failed, reported) or "raise" (write failed, raised).
add_server_to_config(d, server_name, client_type, env_path, command, workspace_path, outcome) ==
    IF outcome = "true"
    THEN [d EXCEPT ![<<client_type, workspace_path>>][server_name] =
              [present |-> TRUE, name |-> server_name,
               environment_path |-> env_path, command |-> command,
               workspace_path |-> workspace_path]]
    ELSE d

\* remove: false if the entry was not present, else removes it, true.
remove_server_from_config(d, server_name, client_type, workspace_path) ==
    [removed |-> d[<<client_type, workspace_path>>][server_name].present,
     docs |-> [d EXCEPT ![<<client_type, workspace_path>>][server_name] = NoEntry]]

\* listConfigured: the entries of the document (empty if none).
list_configured_servers(d, client_type, workspace_path) ==
    {d[<<client_type, workspace_path>>][s] : s \in
        {n \in ServerNames : d[<<client_type, workspace_path>>][n].present}}

\* ------------------------------------------------------------- MCPService
\* str.replace('-', '_', 1): only the first dash.
RECURSIVE Replace_first_only(_)
Replace_first_only(name) ==
    IF name = <<>> THEN <<>>
    ELSE IF Head(name) = "-" THEN <<"_">> \o Tail(name)
    ELSE <<Head(name)>> \o Replace_first_only(Tail(name))

\* str.replace('-', '_') over the tokens of a name.
RECURSIVE Replace(_)
Replace(name) ==
    IF name = <<>> THEN <<>>
    ELSE <<IF Head(name) = "-" THEN "_" ELSE Head(name)>> \o Replace(Tail(name))

_generate_server_command(server_name, env_path) ==
    IF server_name = condamcp
    THEN <<"conda run -p ">> \o env_path \o <<" condamcp">>
    ELSE <<"conda run -p ">> \o env_path \o <<" python -m ">> \o Replace(server_name)

SameCall(a, b) ==
    /\ a.op = b.op
    /\ a.server = b.server
    /\ a.client = b.client
    /\ a.workspace = b.workspace

\* An operation completes: the stores and the call record are replaced.
Return(e, d, call) ==
    /\ envs' = e
    /\ docs' = d
    /\ last' = [call EXCEPT !.repeat = SameCall(call, last)]
    /\ ncalls' = ncalls + 1
    /\ ever' = IF call.op = "install" /\ call.result.success
               THEN ever \cup {<<call.server, call.client, call.workspace>>}
               ELSE ever
    /\ UNCHANGED <<gen, px, cc, ca>>

\* No call of _generate_server_command outside the service operations.
NoGen == [server_name |-> <<>>, env_path |-> <<>>, written |-> <<>>]

\* MCPService.__init__ over an empty base path and no client documents.
ServiceInit ==
    /\ envs = [s \in ServerNames |-> NoEnv]
    /\ docs = [k \in DocKeys |-> [s \in ServerNames |-> NoEntry]]
    /\ last = NoCall
    /\ ncalls = 0
    /\ ever = {}

\* The conda process before the plugin's pre-command hook has run: the
\* exception printer is conda's own and nothing has been handled.
NoPlugin ==
    [mode |-> "None", terms |-> "None", patched |-> FALSE,
     orig |-> "conda", registered |-> 0,
     handled |-> 0, pc |-> "idle", by |-> "none", text |-> "",
     return_code |-> 0, is_a_tty |-> FALSE, system |-> <<>>, prompt |-> <<>>,
     events |-> <<>>, depth |-> 0, starts |-> 0, code |-> 0,
     raised |-> "", result |-> "none"]

\* No install_server call in flight.
NoRace == <<>>

\* The assist command has not been run.
NoAssist ==
    [query |-> <<>>, action_flag |-> FALSE, search_flag |-> FALSE,
     pc |-> "none", action_mode |-> FALSE, flow |-> "none",
     env_exists |-> FALSE, condamcp_process |-> "None", events |-> <<>>,
     result |-> <<>>, queries |-> 0]

Init ==
    /\ ServiceInit
    /\ gen = NoGen
    /\ px = NoPlugin
    /\ cc = NoRace
    /\ ca = NoAssist

\* outcome of a Configurator write, as add_server_to_config leaves it
AddOutcomes == {"true", "false", "raise"}

\* install_server, catalog lookup: "if not server_info".
install_server_catalog_miss_unchecked(server_name) == FALSE

install_server_catalog_miss(server_name) == ~get_server_details(server_name)

\* install_server, catalog miss: failed result, nothing else.
install_server_not_found(call, calls) ==
    Return(envs, docs,
        [call EXCEPT !.calls = calls,
           !.result = InstallationResult(FALSE, call.server, <<>>, <<>>,
               <<"Server '">> \o call.server \o <<"' not found in catalog">>)])

\* install_server, "except Exception as e" with the stores as the raising
\* statement left them: remove the environment of the name, report str(e).
install_server_except_rollback_config(call, calls, e, d, create, add, exc) ==
    LET env == remove_environment(e, call.server)
        cfg == remove_server_from_config(d, call.server, call.client, call.workspace)
    IN
    Return(env.envs, cfg.docs,
        [call EXCEPT !.calls = calls \o <<"env_manager.remove_environment">>,
           !.create = create, !.add = add,
           !.env_removed = Bool(env.removed),
           !.result = InstallationResult(FALSE, call.server, <<>>, <<>>,
               <<"Installation failed: ", exc>>)])

install_server_except(call, calls, e, d, create, add, exc) ==
    LET env == remove_environment(e, call.server)
    IN
    Return(env.envs, d,
        [call EXCEPT !.calls = calls \o <<"env_manager.remove_environment">>,
           !.create = create, !.add = add,
           !.env_removed = Bool(env.removed),
           !.result = InstallationResult(FALSE, call.server, <<>>, <<>>,
               <<"Installation failed: ", exc>>)])

\* install_server, "if not config_success": clean up the environment.
install_server_config_failed_no_cleanup(call, calls, e, d) ==
    Return(e, d,
        [call EXCEPT !.calls = calls,
           !.create = "ok", !.add = "false",
           !.result = InstallationResult(FALSE, call.server, <<>>, <<>>,
               <<"Failed to update client configuration">>)])

install_server_config_failed_keeps_path(call, calls, e, d) ==
    LET env == remove_environment(e, call.server)
    IN
    Return(env.envs, d,
        [call EXCEPT !.calls = calls \o <<"env_manager.remove_environment">>,
           !.create = "ok", !.add = "false",
           !.env_removed = Bool(env.removed),
           !.result = InstallationResult(FALSE, call.server, e[call.server].path,
               <<>>, <<"Failed to update client configuration">>)])

install_server_config_failed(call, calls, e, d) ==
    LET env == remove_environment(e, call.server)
    IN
    Return(env.envs, d,
        [call EXCEPT !.calls = calls \o <<"env_manager.remove_environment">>,
           !.create = "ok", !.add = "false",
           !.env_removed = Bool(env.removed),
           !.result = InstallationResult(FALSE, call.server, <<>>, <<>>,
               <<"Failed to update client configuration">>)])

\* install_server, success: report the environment and the config path.
install_server_success_swapped_paths(call, calls, e, d, env_path) ==
    Return(e, d,
        [call EXCEPT !.calls = calls \o <<"configurator._get_config_path">>,
           !.create = "ok", !.add = "true",
           !.result = InstallationResult(TRUE, call.server,
                          GetConfigPath(call.client, call.workspace), env_path,
                          <<>>)])

install_server_success(call, calls, e, d, env_path) ==
    Return(e, d,
        [call EXCEPT !.calls = calls \o <<"configurator._get_config_path">>,
           !.create = "ok", !.add = "true",
           !.result = InstallationResult(TRUE, call.server, env_path,
                          GetConfigPath(call.client, call.workspace), <<>>)])

\* MCPService.install_server (python_version only reaches create_environment
\* and does not influence the outcome).
install_server(server_name, client_name, workspace_path, create_fault, add_outcome, path_fault) ==
    LET call == Call("install", server_name, client_name, workspace_path)
        c0 == <<"catalog.get_server_details">>
        cr == create_environment(envs, server_name, create_fault)
        c1 == c0 \o <<"env_manager.create_environment">>
        env_path == cr.path
        command == _generate_server_command(server_name, env_path)
        d2 == add_server_to_config(docs, server_name, client_name, env_path,
                                   command, workspace_path, add_outcome)
        c2 == c1 \o <<"configurator.add_server_to_config">>
    IN
    IF install_server_catalog_miss(server_name)
    THEN install_server_not_found(call, c0)
    ELSE IF cr.raised # "none"
    THEN install_server_except(call, c1, cr.envs, docs, cr.raised, "none", cr.raised)
    ELSE IF add_outcome = "raise"
    THEN install_server_except(call, c2, cr.envs, d2, "ok", "raise", "ConfigWriteError")
    ELSE IF add_outcome = "false"
    THEN install_server_config_failed(call, c2, cr.envs, d2)
    ELSE IF path_fault
    THEN \* _get_config_path raises inside the try block, after the write
         install_server_except(call, c2 \o <<"configurator._get_config_path">>,
                               cr.envs, d2, "ok", "true", "Exception")
    ELSE install_server_success(call, c2, cr.envs, d2, env_path)

\* update_server, catalog lookup: "if not server_info".
update_server_catalog_miss_unchecked(server_name) == FALSE

update_server_catalog_miss(server_name) == ~get_server_details(server_name)

\* update_server, early returns: a failed result with the given message.
update_server_failed(call, calls, message) ==
    Return(envs, docs,
        [call EXCEPT !.calls = calls,
           !.result = InstallationResult(FALSE, call.server, <<>>, <<>>, message)])

\* update_server, "except Exception as e" with the stores as the raising
\* statement left them: report str(e), no clean-up.
update_server_except_with_cleanup(call, calls, e, d, add, exc) ==
    LET env == remove_environment(e, call.server)
    IN
    Return(env.envs, d,
        [call EXCEPT !.calls = calls \o <<"env_manager.remove_environment">>,
           !.add = add,
           !.env_removed = Bool(env.removed),
           !.result = InstallationResult(FALSE, call.server, <<>>, <<>>,
               <<"Update failed: ", exc>>)])

update_server_except(call, calls, e, d, add, exc) ==
    Return(e, d,
        [call EXCEPT !.calls = calls, !.add = add,
           !.result = InstallationResult(FALSE, call.server, <<>>, <<>>,
               <<"Update failed: ", exc>>)])

\* update_server, "if not config_success": failed result, no clean-up.
update_server_config_failed(call, calls, e, d) ==
    Return(e, d,
        [call EXCEPT !.calls = calls, !.add = "false",
           !.result = InstallationResult(FALSE, call.server, <<>>, <<>>,
               <<"Failed to update client configuration">>)])

\* update_server, success: report the environment and the config path.
update_server_success(call, calls, e, d, env_path) ==
    Return(e, d,
        [call EXCEPT !.calls = calls \o <<"configurator._get_config_path">>,
           !.add = "true",
           !.result = InstallationResult(TRUE, call.server, env_path,
                          GetConfigPath(call.client, call.workspace), <<>>)])

\* update_server appending the generated command to the one already in the
\* entry instead of replacing it.
update_server_appends_command(server_name, client_name, workspace_path, update_fault, add_outcome, path_fault) ==
    LET call == Call("update", server_name, client_name, workspace_path)
        c0 == <<"catalog.get_server_details">>
        env_path == get_environment_path(envs, server_name)
        c1 == c0 \o <<"env_manager.get_environment_path">>
        up == update_environment(envs, server_name, update_fault)
        c2 == c1 \o <<"env_manager.update_environment">>
        command == docs[<<client_name, workspace_path>>][server_name].command
                       \o _generate_server_command(server_name, env_path)
        d3 == add_server_to_config(docs, server_name, client_name, env_path,
                                   command, workspace_path, add_outcome)
        c3 == c2 \o <<"configurator.add_server_to_config">>
    IN
    IF update_server_catalog_miss(server_name)
    THEN update_server_failed(call, c0,
             <<"Server '">> \o server_name \o <<"' not found in catalog">>)
    ELSE IF env_path = <<>>
    THEN update_server_failed(call, c1,
             <<"Server '">> \o server_name \o <<"' is not installed">>)
    ELSE IF up.raised # "none"
    THEN update_server_except(call, c2, up.envs, docs, "none", up.raised)
    ELSE IF add_outcome = "raise"
    THEN update_server_except(call, c3, up.envs, d3, "raise", "ConfigWriteError")
    ELSE IF add_outcome = "false"
    THEN update_server_config_failed(call, c3, up.envs, d3)
    ELSE IF path_fault
    THEN \* _get_config_path raises inside the try block, after the write
         update_server_except(call, c3 \o <<"configurator._get_config_path">>,
                              up.envs, d3, "true", "Exception")
    ELSE update_server_success(call, c3, up.envs, d3, env_path)

\* MCPService.update_server.
update_server(server_name, client_name, workspace_path, update_fault, add_outcome, path_fault) ==
    LET call == Call("update", server_name, client_name, workspace_path)
        c0 == <<"catalog.get_server_details">>
        env_path == get_environment_path(envs, server_name)
        c1 == c0 \o <<"env_manager.get_environment_path">>
        up == update_environment(envs, server_name, update_fault)
        c2 == c1 \o <<"env_manager.update_environment">>
        command == _generate_server_command(server_name, env_path)
        d3 == add_server_to_config(docs, server_name, client_name, env_path,
                                   command, workspace_path, add_outcome)
        c3 == c2 \o <<"configurator.add_server_to_config">>
    IN
    IF update_server_catalog_miss(server_name)
    THEN update_server_failed(call, c0,
             <<"Server '">> \o server_name \o <<"' not found in catalog">>)
    ELSE IF env_path = <<>>
    THEN update_server_failed(call, c1,
             <<"Server '">> \o server_name \o <<"' is not installed">>)
    ELSE IF up.raised # "none"
    THEN update_server_except(call, c2, up.envs, docs, "none", up.raised)
    ELSE IF add_outcome = "raise"
    THEN update_server_except(call, c3, up.envs, d3, "raise", "ConfigWriteError")
    ELSE IF add_outcome = "false"
    THEN update_server_config_failed(call, c3, up.envs, d3)
    ELSE IF path_fault
    THEN \* _get_config_path raises inside the try block, after the write
         update_server_except(call, c3 \o <<"configurator._get_config_path">>,
                              up.envs, d3, "true", "Exception")
    ELSE update_server_success(call, c3, up.envs, d3, env_path)

\* uninstall_server written "config_removed and remove_environment(...)".
uninstall_server_and_short_circuit(server_name, client_name, workspace_path) ==
    LET cfg == remove_server_from_config(docs, server_name, client_name, workspace_path)
        config_removed == cfg.removed
        env == remove_environment(envs, server_name)
    IN
    IF config_removed
    THEN Return(env.envs, cfg.docs,
            [Call("uninstall", server_name, client_name, workspace_path) EXCEPT
               !.calls = <<"configurator.remove_server_from_config",
                           "env_manager.remove_environment">>,
               !.config_removed = "true",
               !.env_removed = Bool(env.removed),
               !.returned = env.removed])
    ELSE Return(envs, cfg.docs,
            [Call("uninstall", server_name, client_name, workspace_path) EXCEPT
               !.calls = <<"configurator.remove_server_from_config">>,
               !.config_removed = "false",
               !.returned = FALSE])

\* uninstall_server written "config_removed or remove_environment(...)".
uninstall_server_or_short_circuit(server_name, client_name, workspace_path) ==
    LET cfg == remove_server_from_config(docs, server_name, client_name, workspace_path)
        config_removed == cfg.removed
        env == remove_environment(envs, server_name)
    IN
    IF config_removed
    THEN Return(envs, cfg.docs,
            [Call("uninstall", server_name, client_name, workspace_path) EXCEPT
               !.calls = <<"configurator.remove_server_from_config">>,
               !.config_removed = "true",
               !.returned = TRUE])
    ELSE Return(env.envs, cfg.docs,
            [Call("uninstall", server_name, client_name, workspace_path) EXCEPT
               !.calls = <<"configurator.remove_server_from_config",
                           "env_manager.remove_environment">>,
               !.config_removed = "false",
               !.env_removed = Bool(env.removed),
               !.returned = env.removed])

\* uninstall_server that drops workspace_path on the way to the Configurator:
\* the entry goes from every document of the client.
uninstall_server_all_workspaces(server_name, client_name, workspace_path) ==
    LET cfg == remove_server_from_config(docs, server_name, client_name, workspace_path)
        config_removed == cfg.removed
        env == remove_environment(envs, server_name)
        env_removed == env.removed
    IN
    Return(env.envs,
        [k \in DocKeys |->
            IF k[1] = client_name
            THEN [docs[k] EXCEPT ![server_name] = NoEntry]
            ELSE docs[k]],
        [Call("uninstall", server_name, client_name, workspace_path) EXCEPT
           !.calls = <<"configurator.remove_server_from_config",
                       "env_manager.remove_environment">>,
           !.config_removed = Bool(config_removed),
           !.env_removed = Bool(env_removed),
           !.returned = config_removed /\ env_removed])

\* MCPService.uninstall_server: both removals, unconditionally, in order.
uninstall_server(server_name, client_name, workspace_path) ==
    LET cfg == remove_server_from_config(docs, server_name, client_name, workspace_path)
        config_removed == cfg.removed
        env == remove_environment(envs, server_name)
        env_removed == env.removed
    IN
    Return(env.envs, cfg.docs,
        [Call("uninstall", server_name, client_name, workspace_path) EXCEPT
           !.calls = <<"configurator.remove_server_from_config",
                       "env_manager.remove_environment">>,
           !.config_removed = Bool(config_removed),
           !.env_removed = Bool(env_removed),
           !.returned = config_removed /\ env_removed])

\* list_installed_servers without "if servers".
list_installed_servers_keep_empty(client_name, workspace_path) ==
    LET clients == IF client_name # NoClient THEN {client_name} ELSE ClientType
        result == {[client |-> c,
                    servers |-> list_configured_servers(docs, c, workspace_path)] :
                      c \in clients}
    IN
    Return(envs, docs,
        [Call("list_installed", <<>>, client_name, workspace_path) EXCEPT
           !.calls = <<"configurator.list_configured_servers">>,
           !.listing = result])

\* MCPService.list_installed_servers: client -> configured servers, as the
\* set of the mapping's items.
list_installed_servers(client_name, workspace_path) ==
    LET clients == IF client_name # NoClient THEN {client_name} ELSE ClientType
        result == {[client |-> c,
                    servers |-> list_configured_servers(docs, c, workspace_path)] :
                      c \in {x \in clients :
                               list_configured_servers(docs, x, workspace_path) # {}}}
    IN
    Return(envs, docs,
        [Call("list_installed", <<>>, client_name, workspace_path) EXCEPT
           !.calls = <<"configurator.list_configured_servers">>,
           !.listing = result])

\* MCPService.verify_installation.  service.py never imports os, so the
\* evaluation of os.path.exists(env_path) raises NameError.
verify_installation(server_name) ==
    LET call == Call("verify", server_name, NoClient, NoWorkspace)
        env_path == get_environment_path(envs, server_name)
        c0 == <<"env_manager.get_environment_path">>
    IN
    IF env_path = <<>>
    THEN Return(envs, docs, [call EXCEPT !.calls = c0, !.returned = FALSE])
    ELSE Return(envs, docs, [call EXCEPT !.calls = c0, !.raised = "NameError"])

\* ------------------------------------------------------ the specification
Install ==
    \E s \in ServerNames, c \in ClientType, w \in Workspaces,
       f \in BOOLEAN, a \in AddOutcomes, p \in BOOLEAN :
        /\ ncalls < MaxCalls
        /\ f => a = "true"      \* the write is not reached when create raises
        /\ p => (~f /\ a = "true")   \* nor the path lookup when the write fails
        /\ install_server(s, c, w, f, a, p)

Update ==
    \E s \in ServerNames, c \in ClientType, w \in Workspaces,
       f \in BOOLEAN, a \in AddOutcomes, p \in BOOLEAN :
        /\ ncalls < MaxCalls
        /\ f => a = "true"      \* the write is not reached when update raises
        /\ p => (~f /\ a = "true")   \* nor the path lookup when the write fails
        /\ update_server(s, c, w, f, a, p)

Uninstall ==
    \E s \in ServerNames, c \in ClientType, w \in Workspaces :
        /\ ncalls < MaxCalls
        /\ uninstall_server(s, c, w)

ListInstalled ==
    \E c \in ClientType \cup {NoClient}, w \in Workspaces :
        /\ ncalls < MaxCalls
        /\ list_installed_servers(c, w)

Verify ==
    \E s \in ServerNames :
        /\ ncalls < MaxCalls
        /\ verify_installation(s)

Next ==
    \/ Install
    \/ Update
    \/ Uninstall
    \/ ListInstalled
    \/ Verify

Spec == Init /\ [][Next]_vars

\* ------------------------------------- _generate_server_command on its own
\* Tokens of the names tried: the reserved name, a word and the dash.
NameTokens == {"condamcp", "srv", "-"}

RECURSIVE NamesUpTo(_)
NamesUpTo(n) ==
    IF n = 0 THEN {<<>>}
    ELSE NamesUpTo(n - 1) \cup
         {Append(w, t) : w \in {x \in NamesUpTo(n - 1) : Len(x) = n - 1},
                         t \in NameTokens}

GenNames == NamesUpTo(MaxNameLen) \ {<<>>}

\* env_path: the Environment Manager's path of the name, or any other path.
GenPaths(server_name) == {EnvPath(server_name), <<"/opt/envs/mcp">>}

\* Commands written for one installation: by install_server, then by
\* update_server.
MaxWrites == 2

InitCommand ==
    /\ ServiceInit
    /\ \E n \in GenNames : \E p \in GenPaths(n) :
          gen = [server_name |-> n, env_path |-> p, written |-> <<>>]
    /\ px = NoPlugin
    /\ cc = NoRace
    /\ ca = NoAssist

\* command = self._generate_server_command(server_name, env_path)
GenerateCommand ==
    /\ Len(gen.written) < MaxWrites
    /\ gen' = [gen EXCEPT !.written =
                  Append(@, _generate_server_command(gen.server_name, gen.env_path))]
    /\ UNCHANGED <<svc_vars, px, cc, ca>>

NextCommand == GenerateCommand

SpecCommand == InitCommand /\ [][NextCommand]_vars

\* ------------------------------------------- the conda plugin's error path
\* Exceptions handled by one conda process.
MaxErrors == 1

\* Runs of the pre-command hook in one conda process.
MaxRegistrations == 2

\* try_except_repeat(chat, max_depth=5) of stream_response.
MaxDepth == 5

\* AssistantCondaConfig().debug_error_mode; "None" is the unset option.
DebugModes == {"off", "automatic", "ask", "None"}

\* AssistantConfig().accepted_terms; "None" is the unset option.
TermsValues == {"True", "False", "None"}

\* str(exc_val) of the conda exceptions tried.
ErrorTexts == {"KeyboardInterrupt", "mocked-command failed"}

\* exc_val.return_code of the conda exceptions tried.
ReturnCodes == {0, 1}

\* config.system_messages.error
SystemMessageError == <<"system_messages.error">>

\* self.get_error_report(exc_val, exc_tb): the command line and the error.
get_error_report(text) ==
    [command |-> <<"conda command will-fail">>,
     error |-> <<"CondaError: ", text>>]

\* get_clean_error_report_command(report)
get_clean_error_report_command(report) ==
    <<"clean(">> \o report.command \o <<")">>

\* An entry of the process's trace: what was printed, asked or started.
Event(ev, system_message, prompt) ==
    [ev |-> ev, system |-> system_message, prompt |-> prompt]

\* The process is gone: sys.exit(1), or an exception left the handler.
Exited(p) ==
    p.result \in {"exit1", "RuntimeError", "KeyError", "RecursionError"}

\* Exception types with a handler in ERROR_HANDLERS.
ERROR_HANDLERS ==
    {"UnspecifiedDataCollectionChoice", "UnspecifiedAcceptedTermsError",
     "AuthenticationMissingError"}

\* What one run of chat() does: completes, or raises.
ChatOutcomes ==
    ERROR_HANDLERS \cup {"ok", "ValueError", "KeyboardInterrupt"}

\* data_collection_choice(e): the exit code.
data_collection_choice(is_a_tty) == IF ~is_a_tty THEN 1 ELSE -1

\* accept_terms(e): the exit code; accepted_terms is the Confirm answer.
accept_terms(is_a_tty, accepted_terms) ==
    IF ~is_a_tty THEN 1
    ELSE IF ~accepted_terms THEN 1 ELSE -1

\* The login handler of anaconda_auth: -1 once the user has logged in.
login_required(is_a_tty, do_login) ==
    IF ~is_a_tty THEN 1
    ELSE IF do_login THEN -1 ELSE 1

\* callback = ERROR_HANDLERS[type(e)]; exit_code = callback(e)
callback(e, is_a_tty, answer) ==
    IF e = "UnspecifiedDataCollectionChoice" THEN data_collection_choice(is_a_tty)
    ELSE IF e = "UnspecifiedAcceptedTermsError" THEN accept_terms(is_a_tty, answer)
    ELSE login_required(is_a_tty, answer)

\* set_config("plugin.assistant", "accepted_terms", accepted_terms)
set_config_accepted_terms(p, e, answer) ==
    IF e = "UnspecifiedAcceptedTermsError" /\ p.is_a_tty
    THEN [p EXCEPT !.terms = IF answer THEN "True" ELSE "False"]
    ELSE p

\* try_except_repeat with the recursive call made at the same max_depth.
try_except_repeat_same_depth(p, outcome, answer) ==
    IF p.depth = 0
    THEN [p EXCEPT !.pc = "idle", !.result = "RuntimeError"]
    ELSE
    LET q == [p EXCEPT !.starts = @ + 1, !.raised = outcome,
                       !.events = Append(@, Event("chat", p.system, p.prompt))]
    IN  IF outcome = "ok"
        THEN [q EXCEPT !.pc = "idle", !.result = "returned"]
        ELSE IF outcome = "KeyboardInterrupt"
        THEN [q EXCEPT !.pc = "idle", !.result = "exit1",
                       !.events = Append(@, Event("interrupt_message", <<>>, <<>>))]
        ELSE IF outcome \notin ERROR_HANDLERS
        THEN [q EXCEPT !.pc = "idle", !.result = "KeyError"]
        ELSE
        LET exit_code == callback(outcome, q.is_a_tty, answer)
            r == set_config_accepted_terms(q, outcome, answer)
        IN  IF exit_code = -1
            THEN [r EXCEPT !.code = exit_code]
            ELSE [r EXCEPT !.code = exit_code, !.pc = "idle",
                           !.result = "returned"]

\* One level of try_except_repeat(chat, max_depth): p.depth is max_depth.
try_except_repeat(p, outcome, answer) ==
    IF p.depth = 0
    THEN [p EXCEPT !.pc = "idle", !.result = "RuntimeError"]
    ELSE
    LET q == [p EXCEPT !.starts = @ + 1, !.raised = outcome,
                       !.events = Append(@, Event("chat", p.system, p.prompt))]
    IN  IF outcome = "ok"
        THEN [q EXCEPT !.pc = "idle", !.result = "returned"]
        ELSE IF outcome = "KeyboardInterrupt"
        THEN [q EXCEPT !.pc = "idle", !.result = "exit1",
                       !.events = Append(@, Event("interrupt_message", <<>>, <<>>))]
        ELSE IF outcome \notin ERROR_HANDLERS
        THEN [q EXCEPT !.pc = "idle", !.result = "KeyError"]
        ELSE
        LET exit_code == callback(outcome, q.is_a_tty, answer)
            r == set_config_accepted_terms(q, outcome, answer)
        IN  IF exit_code = -1
            THEN [r EXCEPT !.code = exit_code, !.depth = @ - 1]
            ELSE [r EXCEPT !.code = exit_code, !.pc = "idle",
                           !.result = "returned"]

\* stream_response up to the first run of chat().
stream_response(p, system_message, prompt, is_a_tty) ==
    [p EXCEPT !.events = Append(@, Event("stream_response", system_message, prompt)),
              !.system = system_message, !.prompt = prompt,
              !.is_a_tty = is_a_tty, !.pc = "chat", !.depth = MaxDepth,
              !.result = "running"]

\* create_message passing prompt and error to stream_response in the order
\* of its own parameters.
create_message_parameter_order(p, debug_mode, prompt, is_a_tty, error, choice, should_debug) ==
    LET asked == debug_mode = "None"
        mode == IF asked THEN choice ELSE debug_mode
        q == IF asked
             THEN [p EXCEPT !.events = Append(@, Event("debug_config", <<>>, <<>>))]
             ELSE p
    IN  IF mode = "automatic"
        THEN stream_response(q, prompt, error, is_a_tty)
        ELSE IF mode = "ask"
        THEN LET r == [q EXCEPT !.events = Append(@, Event("confirm", <<>>, <<Bool(should_debug)>>))]
             IN  IF should_debug
                 THEN stream_response(r, prompt, error, is_a_tty)
                 ELSE [r EXCEPT !.events = Append(@, Event("goodbye", <<>>, <<>>)),
                                !.result = "returned"]
        ELSE [q EXCEPT !.result = "returned"]

\* create_message; choice is what debug_config() returns, should_debug the
\* Confirm answer.
create_message(p, debug_mode, prompt, is_a_tty, error, choice, should_debug) ==
    LET asked == debug_mode = "None"
        mode == IF asked THEN choice ELSE debug_mode
        q == IF asked
             THEN [p EXCEPT !.events = Append(@, Event("debug_config", <<>>, <<>>))]
             ELSE p
    IN  IF mode = "automatic"
        THEN stream_response(q, error, prompt, is_a_tty)
        ELSE IF mode = "ask"
        THEN LET r == [q EXCEPT !.events = Append(@, Event("confirm", <<>>, <<Bool(should_debug)>>))]
             IN  IF should_debug
                 THEN stream_response(r, error, prompt, is_a_tty)
                 ELSE [r EXCEPT !.events = Append(@, Event("goodbye", <<>>, <<>>)),
                                !.result = "returned"]
        ELSE [q EXCEPT !.result = "returned"]

\* A conda exception reaches the printer: the record of its handling.
Handling(p, by, text, return_code) ==
    [p EXCEPT !.handled = @ + 1, !.by = by, !.text = text,
              !.return_code = return_code, !.is_a_tty = FALSE,
              !.system = <<>>, !.prompt = <<>>, !.events = <<>>,
              !.depth = 0, !.starts = 0, !.code = 0, !.raised = "",
              !.result = "none"]

\* ExceptionHandler._print_conda_exception of conda, kept as
\* _orig_print_conda_exception.
_orig_print_conda_exception(p, text, return_code) ==
    [Handling(p, "original", text, return_code) EXCEPT
        !.events = <<Event("print_conda_exception", <<>>, <<>>)>>,
        !.result = "returned"]

\* assistant_exception_handler up to the first run of chat().
assistant_exception_handler(p, text, return_code, is_a_tty, choice, should_debug) ==
    LET p0 == Handling(p, "assistant", text, return_code)
    IN  IF text = "KeyboardInterrupt"
        THEN [p0 EXCEPT !.events = <<Event("interrupt_message", <<>>, <<>>)>>,
                        !.result = "exit1"]
        ELSE
        LET p1 == [p0 EXCEPT !.events = <<Event("print_conda_exception", <<>>, <<>>)>>]
        IN  IF p.orig # "conda"
            THEN \* the saved printer is this handler: it calls itself
                 [p0 EXCEPT !.result = "RecursionError"]
            ELSE IF return_code = 0
            THEN [p1 EXCEPT !.result = "returned"]
            ELSE
            LET report == get_error_report(text)
                command == get_clean_error_report_command(report)
                prompt == <<"COMMAND:\n">> \o command \o <<"\nMESSAGE:\n">>
                              \o report.error
            IN  create_message(p1, p.mode, prompt, is_a_tty,
                               SystemMessageError, choice, should_debug)

\* error_handler saving the installed printer as _orig_print_conda_exception
\* on each run, instead of once when the module is imported.
error_handler_saves_printer(p) ==
    LET q == [p EXCEPT !.registered = @ + 1]
    IN  IF p.mode = "off" THEN q
        ELSE IF p.terms = "False" THEN q
        ELSE [q EXCEPT !.patched = TRUE,
                       !.orig = IF p.patched THEN "assistant" ELSE "conda"]

\* error_handler without the accepted_terms check.
error_handler_ignores_terms(p) ==
    LET q == [p EXCEPT !.registered = @ + 1]
    IN  IF p.mode = "off" THEN q
        ELSE [q EXCEPT !.patched = TRUE]

\* error_handler(command): patch the printer unless debugging is off or the
\* terms were declined.
error_handler(p) ==
    LET q == [p EXCEPT !.registered = @ + 1]
    IN  IF p.mode = "off" THEN q
        ELSE IF p.terms = "False" THEN q
        ELSE [q EXCEPT !.patched = TRUE]

\* conda_pre_commands: the hook runs error_handler before a command.
RegisterErrorHandler ==
    /\ px.pc = "idle"
    /\ ~Exited(px)
    /\ px.registered < MaxRegistrations
    /\ px' = error_handler(px)
    /\ UNCHANGED <<svc_vars, gen, cc, ca>>

\* conda prints an exception through whichever printer is installed.
PrintCondaException ==
    /\ px.pc = "idle"
    /\ ~Exited(px)
    /\ px.handled < MaxErrors
    /\ \E text \in ErrorTexts, return_code \in ReturnCodes,
          is_a_tty \in BOOLEAN, should_debug \in BOOLEAN,
          choice \in DebugModes \ {"None"} :
          px' = IF px.patched
                THEN assistant_exception_handler(px, text, return_code,
                                                 is_a_tty, choice, should_debug)
                ELSE _orig_print_conda_exception(px, text, return_code)
    /\ UNCHANGED <<svc_vars, gen, cc, ca>>

\* One level of the retry loop inside stream_response.
Chat ==
    /\ px.pc = "chat"
    /\ \E outcome \in ChatOutcomes, answer \in BOOLEAN :
          px' = try_except_repeat(px, outcome, answer)
    /\ UNCHANGED <<svc_vars, gen, cc, ca>>

InitPlugin ==
    /\ ServiceInit
    /\ gen = NoGen
    /\ \E m \in DebugModes, t \in TermsValues :
          px = [NoPlugin EXCEPT !.mode = m, !.terms = t]
    /\ cc = NoRace
    /\ ca = NoAssist

NextPlugin ==
    \/ RegisterErrorHandler
    \/ PrintCondaException
    \/ Chat

SpecPlugin == InitPlugin /\ [][NextPlugin]_vars

\* --------------------------------- two install_server calls at the same time
\* The calls in flight.
Callers == {1, 2}

\* A document as the Configurator reads it: server name -> entry.
EmptyDocument == [s \in ServerNames |-> NoEntry]

\* An install_server(server, client, workspace) call about to enter its try
\* block.
Caller(server, client, workspace) ==
    [server |-> server, client |-> client, workspace |-> workspace,
     pc |-> "create", env_path |-> <<>>, command |-> <<>>,
     snapshot |-> EmptyDocument, stale |-> FALSE, done |-> FALSE,
     success |-> FALSE]

\* The document of a call.
DocKey(c) == <<c.client, c.workspace>>

\* add_server_to_config under a lock held from the read to the write: the
\* document written is made from the document as it is now.
install_server_add_serialized(c, d, outcome) ==
    add_server_to_config(d, c.server, c.client, c.env_path, c.command,
                         c.workspace, outcome)

\* self.configurator.add_server_to_config(...) of install_server, its write
\* half: the document read earlier, with the entry put in, replaces the
\* document; d is the Configurator's store at the time of the write.
install_server_add(c, d, outcome) ==
    [d EXCEPT ![DocKey(c)] =
        add_server_to_config([d EXCEPT ![DocKey(c)] = c.snapshot],
                             c.server, c.client, c.env_path, c.command,
                             c.workspace, outcome)[DocKey(c)]]

\* install_server from the catalog check to the generated command.
InstallCreate ==
    \E p \in Callers :
        /\ cc[p].pc = "create"
        /\ LET c == cc[p]
               cr == create_environment(envs, c.server, FALSE)
           IN  IF install_server_catalog_miss(c.server) \/ cr.raised # "none"
               THEN /\ envs' = remove_environment(cr.envs, c.server).envs
                    /\ cc' = [cc EXCEPT ![p].pc = "done", ![p].done = TRUE]
               ELSE /\ envs' = cr.envs
                    /\ cc' = [cc EXCEPT ![p].pc = "read",
                                 ![p].env_path = cr.path,
                                 ![p].command =
                                     _generate_server_command(c.server, cr.path)]
        /\ UNCHANGED <<docs, last, ncalls, ever, gen, px, ca>>

\* add_server_to_config, its read half: the Configurator loads the document.
ConfigRead ==
    \E p \in Callers :
        /\ cc[p].pc = "read"
        /\ cc' = [cc EXCEPT ![p].pc = "write",
                            ![p].snapshot = docs[DocKey(cc[p])]]
        /\ UNCHANGED <<svc_vars, gen, px, ca>>

\* add_server_to_config, its write half, and the rest of install_server.
\* A call that holds a document read before this write has a stale one.
ConfigWrite ==
    \E p \in Callers, outcome \in {"true", "false"} :
        /\ cc[p].pc = "write"
        /\ docs' = install_server_add(cc[p], docs, outcome)
        /\ envs' = IF outcome = "true" THEN envs
                   ELSE remove_environment(envs, cc[p].server).envs
        /\ cc' = [q \in Callers |->
                    IF q = p
                    THEN [cc[p] EXCEPT !.pc = "done", !.done = TRUE,
                                       !.success = (outcome = "true")]
                    ELSE IF /\ cc[q].pc = "write"
                            /\ DocKey(cc[q]) = DocKey(cc[p])
                            /\ outcome = "true"
                         THEN [cc[q] EXCEPT !.stale = TRUE]
                         ELSE cc[q]]
        /\ UNCHANGED <<last, ncalls, ever, gen, px, ca>>

\* Two calls for distinct catalog names, each for any (client, workspace).
InitRace ==
    /\ ServiceInit
    /\ gen = NoGen
    /\ px = NoPlugin
    /\ ca = NoAssist
    /\ \E s1 \in Catalog : \E s2 \in Catalog \ {s1} :
       \E k1 \in DocKeys, k2 \in DocKeys :
          cc = [p \in Callers |->
                  IF p = 1 THEN Caller(s1, k1[1], k1[2])
                  ELSE Caller(s2, k2[1], k2[2])]

NextRace ==
    \/ InstallCreate
    \/ ConfigRead
    \/ ConfigWrite

SpecRace == InitRace /\ [][NextRace]_vars

\* ------------------------------------ the assist command and CondaAssistant
\* Words of a query on the command line.
MaxQueryLen == 2

\* Queries handled in one behaviour.
MaxQueries == 2

\* The words tried: two that hold an action keyword when lowered and a
\* neutral one.
QueryWords == {"install", "Please", "numpy"}

RECURSIVE ArgsUpTo(_)
ArgsUpTo(n) ==
    IF n = 0 THEN {<<>>}
    ELSE ArgsUpTo(n - 1) \cup
         {Append(w, t) : w \in {x \in ArgsUpTo(n - 1) : Len(x) = n - 1},
                         t \in QueryWords}

\* query: List[str] of the assist command.
QueryArgs == ArgsUpTo(MaxQueryLen)

\* " ".join(query)
RECURSIVE Join(_)
Join(query) ==
    IF query = <<>> THEN <<>>
    ELSE IF Len(query) = 1 THEN query
    ELSE <<Head(query), " ">> \o Join(Tail(query))

\* str.lower() of one word.
LowerWord(w) ==
    IF w = "Please" THEN "please" ELSE IF w = "I" THEN "i" ELSE w

\* query.lower()
Lower(q) == [i \in DOMAIN q |-> LowerWord(q[i])]

\* keyword in query_lower
Contains(q, keyword) ==
    \E i \in 0..(Len(q) - Len(keyword)) :
        SubSeq(q, i + 1, i + Len(keyword)) = keyword

\* action_keywords of _is_action_query, as written.
action_keywords ==
    {<<"create">>, <<"make">>, <<"build">>, <<"setup">>, <<"install">>,
     <<"update">>, <<"remove">>, <<"delete">>, <<"clean">>, <<"activate">>,
     <<"deactivate">>, <<"can", " ", "you">>, <<"please">>,
     <<"help", " ", "me">>, <<"I", " ", "need">>, <<"I", " ", "want">>}

\* CondaAssistant._is_action_query
_is_action_query(query) ==
    \E keyword \in action_keywords : Contains(Lower(query), keyword)

\* CondaAssistant._get_action_plan: the action of the simulated plan.
_get_action_plan(query) ==
    IF Contains(Lower(query), <<"create">>) \/ Contains(Lower(query), <<"new">>)
    THEN "create_environment"
    ELSE IF Contains(Lower(query), <<"install">>) THEN "install_packages"
    ELSE IF Contains(Lower(query), <<"update">>) THEN "update_packages"
    ELSE IF Contains(Lower(query), <<"remove">>) \/ Contains(Lower(query), <<"delete">>)
    THEN "remove_environment"
    ELSE "unknown"

\* One more call in the assistant's trace, with what it returned.
Did(a, name, outcome) == [a EXCEPT !.events = Append(@, <<name, outcome>>)]

\* CondaAssistant._ensure_condamcp_server; create_ok and start_ok are what
\* os.makedirs and subprocess.Popen do.
_ensure_condamcp_server(a, create_ok, start_ok) ==
    LET a1 == Did(a, "_check_condamcp_env", Bool(a.env_exists))
        a2 == IF a.env_exists THEN a1
              ELSE [Did(a1, "_create_condamcp_env", Bool(create_ok)) EXCEPT
                       !.env_exists = create_ok]
    IN  IF ~a.env_exists /\ ~create_ok
        THEN [ok |-> FALSE, a |-> a2]
        ELSE IF a.condamcp_process # "running"
        THEN [ok |-> start_ok,
              a |-> [Did(a2, "_start_condamcp_server", Bool(start_ok)) EXCEPT
                        !.condamcp_process =
                            IF start_ok THEN "running" ELSE @]]
        ELSE [ok |-> TRUE, a |-> a2]

\* _handle_action_query executing the plan before presenting it.
_handle_action_query_execute_first(a, query, create_ok, start_ok, confirmation, success) ==
    LET en == _ensure_condamcp_server(a, create_ok, start_ok)
        planned == Did(en.a, "_get_action_plan", _get_action_plan(query))
        executed == Did(planned, "execute_action", Bool(success))
        presented == Did(executed, "present_action_plan", Bool(confirmation))
    IN  IF ~en.ok
        THEN [en.a EXCEPT !.result =
                 <<"I couldn't start the condamcp server. Please make sure it's installed.">>]
        ELSE IF confirmation
        THEN [Did(presented, "display_result", "") EXCEPT
                 !.result = <<IF success THEN "ok: " ELSE "failed: ", "message">>]
        ELSE [presented EXCEPT !.result =
                 <<"Action cancelled. Is there something else I can help you with?">>]

\* CondaAssistant._handle_action_query; confirmation is what
\* present_action_plan returns, success the executor's result.
_handle_action_query(a, query, create_ok, start_ok, confirmation, success) ==
    LET en == _ensure_condamcp_server(a, create_ok, start_ok)
        planned == Did(en.a, "_get_action_plan", _get_action_plan(query))
        presented == Did(planned, "present_action_plan", Bool(confirmation))
        executed == Did(presented, "execute_action", Bool(success))
    IN  IF ~en.ok
        THEN [en.a EXCEPT !.result =
                 <<"I couldn't start the condamcp server. Please make sure it's installed.">>]
        ELSE IF confirmation
        THEN [Did(executed, "display_result", "") EXCEPT
                 !.result = <<IF success THEN "ok: " ELSE "failed: ", "message">>]
        ELSE [presented EXCEPT !.result =
                 <<"Action cancelled. Is there something else I can help you with?">>]

\* CondaAssistant._handle_search_query: the captured output of the chat.
_handle_search_query(a, query) ==
    [Did(a, "stream_response", "") EXCEPT !.result = <<"stdout">>]

\* CondaAssistant.process_query
process_query(a, query, create_ok, start_ok, confirmation, success) ==
    LET b == [a EXCEPT !.query = query, !.events = <<>>, !.result = <<>>,
                       !.queries = @ + 1]
    IN  IF _is_action_query(query)
        THEN _handle_action_query([b EXCEPT !.action_mode = TRUE, !.flow = "action"],
                 query, create_ok, start_ok, confirmation, success)
        ELSE _handle_search_query([b EXCEPT !.action_mode = FALSE, !.flow = "search"],
                 query)

\* CondaAssistant.__init__
CondaAssistant(a) ==
    [a EXCEPT !.condamcp_process = "None", !.action_mode = FALSE]

\* The assist command.
assist(a, query, action_mode, search_mode, create_ok, start_ok, confirmation, success) ==
    LET query_str == Join(query)
        c == [a EXCEPT !.pc = "assist", !.action_flag = action_mode,
                       !.search_flag = search_mode]
        assistant == CondaAssistant(c)
        flagged == IF action_mode THEN [assistant EXCEPT !.action_mode = TRUE]
                   ELSE IF search_mode THEN [assistant EXCEPT !.action_mode = FALSE]
                   ELSE assistant
    IN  IF query_str = <<>>
        THEN [c EXCEPT !.query = <<>>, !.flow = "none", !.result = <<>>,
                       !.queries = @ + 1,
                       !.events = <<<<"print", "Please provide a query.">>>>]
        ELSE process_query(flagged, query_str, create_ok, start_ok,
                           confirmation, success)

\* What the world answers during one query; a later answer is only drawn
\* when the step before it succeeded.
Answers ==
    {x \in [create_ok : BOOLEAN, start_ok : BOOLEAN,
            confirmation : BOOLEAN, success : BOOLEAN] :
        /\ x.start_ok => x.create_ok
        /\ x.confirmation => x.start_ok
        /\ x.success => x.confirmation}

\* conda assist [--action] [--search] QUERY..., once per process.
AssistCommand ==
    /\ ca.pc = "none"
    /\ \E query \in QueryArgs, action_mode \in BOOLEAN, search_mode \in BOOLEAN,
          x \in Answers :
          ca' = assist(ca, query, action_mode, search_mode, x.create_ok,
                       x.start_ok, x.confirmation, x.success)
    /\ UNCHANGED <<svc_vars, gen, px, cc>>

\* A further process_query, of one word, on the assistant the command made.
ProcessQuery ==
    /\ ca.pc = "assist"
    /\ ca.flow # "none"
    /\ ca.queries < MaxQueries
    /\ \E word \in QueryWords, x \in Answers :
          ca' = process_query(ca, <<word>>, x.create_ok, x.start_ok,
                              x.confirmation, x.success)
    /\ UNCHANGED <<svc_vars, gen, px, cc>>

\* The condamcp server process ends: poll() is no longer None.
ServerExits ==
    /\ ca.condamcp_process = "running"
    /\ ca' = [ca EXCEPT !.condamcp_process = "exited"]
    /\ UNCHANGED <<svc_vars, gen, px, cc>>

\* Before the command: the condamcp environment may or may not be there.
InitAssist ==
    /\ ServiceInit
    /\ gen = NoGen
    /\ px = NoPlugin
    /\ cc = NoRace
    /\ \E env_exists \in BOOLEAN :
          ca = [NoAssist EXCEPT !.env_exists = env_exists]

NextAssist ==
    \/ AssistCommand
    \/ ProcessQuery
    \/ ServerExits

SpecAssist == InitAssist /\ [][NextAssist]_vars

TypeOK ==
    /\ \A s \in ServerNames : envs[s].exists \in BOOLEAN
    /\ \A k \in DocKeys, s \in ServerNames : docs[k][s].present \in BOOLEAN
    /\ ncalls \in 0..MaxCalls
    /\ last.op \in {"none", "install", "update", "uninstall", "list_installed", "verify"}

\* ------------------------------------------------------------------ claims

\* C1: at every quiescent state each entry of each client configuration
\* document references an environment that the Environment Manager reports
\* as existing, at the entry's path.
C1_NoDanglingEntry ==
    \A k \in DocKeys, s \in ServerNames :
        docs[k][s].present =>
            /\ envs[s].exists
            /\ envs[s].path = docs[k][s].environment_path

\* C2: install_server for a name whose environment already exists returns a
\* failed result and the pre-existing environment still exists afterwards.
C2_ExistingEnvSurvivesInstall ==
    [][(last'.op = "install" /\ envs[last'.server].exists) =>
          /\ ~last'.result.success
          /\ envs'[last'.server] = envs[last'.server]]_vars

\* C3: a second install_server of the same server for the same (client,
\* workspace), directly after a successful one, returns success=false
\* because the environment already exists and leaves the configuration
\* entry written by the first installation unchanged.
C3_SecondInstallFails ==
    [][(/\ last.op = "install"
        /\ last.result.success
        /\ SameCall(last', last)) =>
          /\ ~last'.result.success
          /\ last'.create = "EnvironmentExistsError"
          /\ docs[<<last.client, last.workspace>>][last.server].present
          /\ docs'[<<last.client, last.workspace>>][last.server] =
                 docs[<<last.client, last.workspace>>][last.server]]_vars

\* The second of two calls, the first of which installed the server for the
\* same (client, workspace): the only way to an existing entry in two calls.
C3_Witness ==
    /\ ncalls = 2
    /\ last.op = "install"
    /\ last.repeat
    /\ last.create = "EnvironmentExistsError"
    /\ <<last.server, last.client, last.workspace>> \in ever
    /\ docs[<<last.client, last.workspace>>][last.server].present

\* C4: when environment creation succeeded and add_server_to_config reported
\* failure, the environment of the server no longer exists when
\* install_server returns, and the result has success=false.
C4_ConfigFailureCompensated ==
    (last.op = "install" /\ last.create = "ok" /\ last.add = "false") =>
        /\ ~envs[last.server].exists
        /\ ~last.result.success

C4_Witness ==
    /\ last.op = "install"
    /\ last.create = "ok"
    /\ last.add = "false"
    /\ last.env_removed = "true"

\* C5: install_server for a name absent from the catalog returns
\* success=false with the 'not found' message and mutates nothing: no
\* environment is created or removed, no configuration document changes, and
\* neither the Environment Manager nor the Configurator is called.
C5_CatalogMissNoMutation ==
    [][(last'.op = "install" /\ last'.server \notin Catalog) =>
          /\ ~last'.result.success
          /\ last'.result.error_message =
                 <<"Server '">> \o last'.server \o <<"' not found in catalog">>
          /\ last'.calls = <<"catalog.get_server_details">>
          /\ envs' = envs
          /\ docs' = docs]_vars

C5_Witness ==
    /\ last.op = "install"
    /\ last.server \notin Catalog
    /\ ~last.result.success
    /\ \E s \in ServerNames : envs[s].exists
    /\ \E k \in DocKeys, s \in ServerNames : docs[k][s].present

\* C6: no public MCPService operation lets an exception escape: every call
\* terminates by returning a value.
C6_NoExceptionEscapes ==
    last.raised = "none"

\* C7: verify_installation returns True exactly when the Environment Manager
\* reports a path for the server and the path exists, and a boolean always.
C7_VerifyIffEnvExists ==
    last.op = "verify" =>
        /\ last.raised = "none"
        /\ last.returned = envs[last.server].exists

\* C8: uninstall_server invokes Configurator remove and then Environment
\* Manager remove whatever the first reported, and returns true exactly
\* when both sub-results are true.
C8_UninstallAttemptsBoth ==
    last.op = "uninstall" =>
        /\ last.calls = <<"configurator.remove_server_from_config",
                          "env_manager.remove_environment">>
        /\ last.config_removed \in {"true", "false"}
        /\ last.env_removed \in {"true", "false"}
        /\ ~envs[last.server].exists
        /\ ~docs[<<last.client, last.workspace>>][last.server].present
        /\ last.returned = (last.config_removed = "true" /\ last.env_removed = "true")

\* Configuration removal reported false and the environment was removed all
\* the same.
C8_Witness ==
    /\ last.op = "uninstall"
    /\ last.config_removed = "false"
    /\ last.env_removed = "true"
    /\ last.returned = FALSE

\* C9: of two uninstall_server(S, C, W) calls in a row, the second has the
\* configuration-removal sub-result false, raises nothing, returns false and
\* leaves environments and configuration documents as the first left them.
C9_UninstallTwice ==
    [][(last.op = "uninstall" /\ SameCall(last', last)) =>
          /\ last'.config_removed = "false"
          /\ last'.raised = "none"
          /\ last'.returned = FALSE
          /\ envs' = envs
          /\ docs' = docs]_vars

\* The second uninstall of a server that some earlier call had installed
\* for this (client, workspace).
C9_Witness ==
    /\ last.op = "uninstall"
    /\ last.repeat
    /\ <<last.server, last.client, last.workspace>> \in ever
    /\ last.config_removed = "false"
    /\ last.returned = FALSE

\* C10: uninstall_server(S, C, W) for a server never installed for (C, W)
\* returns false, raises nothing and changes nothing: no configuration
\* document is modified and no environment is removed, the environment of S
\* made by an installation for another client or workspace included.
C10_UninstallNeverInstalledNoChange ==
    [][(/\ last'.op = "uninstall"
        /\ <<last'.server, last'.client, last'.workspace>> \notin ever) =>
          /\ last'.returned = FALSE
          /\ last'.raised = "none"
          /\ envs' = envs
          /\ docs' = docs]_vars

\* C11: after a successful install_server(S, C, W), list_configured_servers
\* (C, W) holds exactly one entry for S, and its environment path is the
\* environment_path of the returned InstallationResult.
C11_InstallRoundTrip ==
    (last.op = "install" /\ last.result.success) =>
        LET mine == {e \in list_configured_servers(docs, last.client, last.workspace) :
                        e.name = last.server}
        IN /\ Cardinality(mine) = 1
           /\ last.result.environment_path # <<>>
           /\ \A e \in mine : e.environment_path = last.result.environment_path

\* A successful install into a document that already lists another server.
C11_Witness ==
    /\ last.op = "install"
    /\ last.result.success
    /\ Cardinality(list_configured_servers(docs, last.client, last.workspace)) = 2

\* C12: whenever install_server returns success=false, no partial state of
\* that call remains: an environment it created does not exist, the entry of
\* the server in the (client, workspace) document is as before the call, and
\* a failure by exception carries the message 'Installation failed: ...'.
C12_FailedInstallLeavesNothing ==
    [][(last'.op = "install" /\ ~last'.result.success) =>
          /\ ~envs[last'.server].exists => ~envs'[last'.server].exists
          /\ docs' = docs
          /\ (\/ last'.create \notin {"none", "ok"}
              \/ last'.add = "raise"
              \/ last'.add = "true") =>
                 Head(last'.result.error_message) = "Installation failed: "]_vars

\* C13: install_server, update_server and uninstall_server for S on (C, W)
\* leave every other entry as it was (other names in the (C, W) document,
\* every entry of every other document), and each document holds at most
\* one entry per server name.
C13_UnrelatedEntriesPreserved ==
    [][last'.op \in {"install", "update", "uninstall"} =>
          /\ \A k \in DocKeys, s \in ServerNames :
                (k # <<last'.client, last'.workspace>> \/ s # last'.server) =>
                    docs'[k][s] = docs[k][s]
          /\ \A k \in DocKeys :
                /\ \A s \in ServerNames : docs'[k][s].present => docs'[k][s].name = s
                /\ \A s \in ServerNames :
                      Cardinality({e \in list_configured_servers(docs', k[1], k[2]) :
                                      e.name = s}) <= 1]_vars

\* An uninstall that removed the entry of one server from a document that
\* keeps the entry of another.
C13_Witness ==
    /\ last.op = "uninstall"
    /\ last.config_removed = "true"
    /\ \E s \in ServerNames :
          /\ s # last.server
          /\ docs[<<last.client, last.workspace>>][s].present

\* C14: the mapping returned by list_installed_servers has no empty
\* sequence: of the clients examined (every known client type when
\* client_name is omitted, the given one otherwise) exactly those with at
\* least one configured server in the scope are keys, each with its servers.
C14_NoEmptyListing ==
    last.op = "list_installed" =>
        LET examined == IF last.client = NoClient THEN ClientType ELSE {last.client}
        IN /\ \A item \in last.listing :
                /\ item.servers # {}
                /\ item.client \in examined
                /\ item.servers =
                       list_configured_servers(docs, item.client, last.workspace)
           /\ \A c \in examined :
                (\E item \in last.listing : item.client = c) <=>
                    (list_configured_servers(docs, c, last.workspace) # {})
           /\ \A i1, i2 \in last.listing : i1.client = i2.client => i1 = i2

\* Every client examined, one with servers and one without.
C14_Witness ==
    /\ last.op = "list_installed"
    /\ last.client = NoClient
    /\ Cardinality(last.listing) = 1

\* C15: update_server returns a failed result and mutates nothing when the
\* server is absent from the catalog ('not found in catalog', decided before
\* the Environment Manager is asked) or has no environment ('is not
\* installed').
C15_UpdateRejectsUnknown ==
    [][(last'.op = "update" /\
          (last'.server \notin Catalog \/ ~envs[last'.server].exists)) =>
          /\ ~last'.result.success
          /\ envs' = envs
          /\ docs' = docs
          /\ IF last'.server \notin Catalog
             THEN /\ last'.result.error_message =
                        <<"Server '">> \o last'.server \o <<"' not found in catalog">>
                  /\ last'.calls = <<"catalog.get_server_details">>
             ELSE /\ last'.result.error_message =
                        <<"Server '">> \o last'.server \o <<"' is not installed">>
                  /\ last'.calls = <<"catalog.get_server_details",
                                     "env_manager.get_environment_path">>]_vars

\* An update of a catalog server that has no environment, in a state where
\* there is something to mutate.
C15_Witness ==
    /\ last.op = "update"
    /\ last.server \in Catalog
    /\ ~envs[last.server].exists
    /\ ~last.result.success
    /\ \E s \in ServerNames : envs[s].exists

\* C16: update_server does not compensate: when it fails for an installed
\* catalog server (configuration write failed, or an exception was raised),
\* the environment still exists at the same path, Environment Manager remove
\* was not called, and the result has success=false.
C16_UpdateNoCompensation ==
    [][(/\ last'.op = "update"
        /\ last'.server \in Catalog
        /\ envs[last'.server].exists
        /\ ~last'.result.success) =>
          /\ envs'[last'.server].exists
          /\ envs'[last'.server].path = envs[last'.server].path
          /\ \A i \in 1..Len(last'.calls) :
                last'.calls[i] # "env_manager.remove_environment"
          /\ last'.env_removed = "none"]_vars

\* An update that failed by an exception of the configuration write.
C16_Witness ==
    /\ last.op = "update"
    /\ last.add = "raise"
    /\ ~last.result.success
    /\ envs[last.server].exists

\* C17: every InstallationResult of install_server and update_server is
\* well-formed: success=true comes with environment_path and config_path set
\* and no error_message, the environment_path being the path of an
\* environment that exists at return; success=false comes with an
\* error_message and neither path.
C17_ResultWellFormed ==
    last.op \in {"install", "update"} =>
        /\ last.result.server_name = last.server
        /\ IF last.result.success
           THEN /\ last.result.environment_path # <<>>
                /\ last.result.config_path # <<>>
                /\ last.result.error_message = <<>>
                /\ envs[last.server].exists
                /\ envs[last.server].path = last.result.environment_path
           ELSE /\ last.result.error_message # <<>>
                /\ last.result.environment_path = <<>>
                /\ last.result.config_path = <<>>

C17_Witness ==
    /\ last.op = "update"
    /\ last.result.success
    /\ last.result.environment_path = EnvPath(last.server)

\* C18: the launch command is determined by (server name, environment path):
\* 'conda run -p <env> condamcp' for the reserved name condamcp, and 'conda
\* run -p <env> python -m <name with every '-' replaced by '_'>' for every
\* other name; the command written at install and the one written at a
\* later update are therefore the same.
C18_CommandDeterministic ==
    \A i \in 1..Len(gen.written) :
        /\ Len(gen.written[i]) =
               1 + Len(gen.env_path) +
               (IF gen.server_name = <<"condamcp">> THEN 1
                ELSE 1 + Len(gen.server_name))
        /\ gen.written[i][1] = "conda run -p "
        /\ \A j \in 1..Len(gen.env_path) : gen.written[i][1 + j] = gen.env_path[j]
        /\ IF gen.server_name = <<"condamcp">>
           THEN gen.written[i][2 + Len(gen.env_path)] = " condamcp"
           ELSE /\ gen.written[i][2 + Len(gen.env_path)] = " python -m "
                /\ \A j \in 1..Len(gen.server_name) :
                      gen.written[i][2 + Len(gen.env_path) + j] =
                          (IF gen.server_name[j] = "-" THEN "_"
                           ELSE gen.server_name[j])

\* Install and update have both written the command of a name with two
\* dashes that is not the reserved name.
C18_Witness ==
    /\ Len(gen.written) = MaxWrites
    /\ gen.server_name # <<"condamcp">>
    /\ \E i, j \in 1..Len(gen.server_name) :
          /\ i < j
          /\ gen.server_name[i] = "-"
          /\ gen.server_name[j] = "-"

\* The chat started for the exception being handled is the expected one: one
\* stream_response call, and every chat session of it carries the system
\* message config.system_messages.error and the user message made of the
\* cleaned command and the report's error text.
C19_ExactlyOneChat ==
    /\ Cardinality({i \in DOMAIN px.events :
                       px.events[i].ev = "stream_response"}) = 1
    /\ \A i \in DOMAIN px.events :
          px.events[i].ev \in {"stream_response", "chat"} =>
              /\ px.events[i].system = <<"system_messages.error">>
              /\ px.events[i].prompt =
                    <<"COMMAND:\n", "clean(", "conda command will-fail", ")",
                      "\nMESSAGE:\n", "CondaError: ", px.text>>

\* The case of C19: the patched handler has taken a conda exception with a
\* nonzero return code while debug_error_mode is 'automatic'.
C19_Case ==
    /\ px.by = "assistant"
    /\ px.mode = "automatic"
    /\ px.return_code # 0

\* C19 as stated: with debug_error_mode 'automatic', for every conda
\* exception with a nonzero return code handled by the patched exception
\* handler, exactly one assistant chat is started, with the expected system
\* and user messages.
C19_OneChatPerError_AsStated == C19_Case => C19_ExactlyOneChat

\* C19, amended: with debug_error_mode 'automatic', for every conda exception
\* with a nonzero return code whose text is not 'KeyboardInterrupt' handled
\* by the patched exception handler, exactly one assistant chat is started,
\* with system message config.system_messages.error and user message
\* 'COMMAND:\n<cleaned command>\nMESSAGE:\n<error text of the report>'.
C19_OneChatPerError ==
    (C19_Case /\ px.text # "KeyboardInterrupt") => C19_ExactlyOneChat

C19_Witness ==
    /\ C19_Case
    /\ px.text # "KeyboardInterrupt"
    /\ px.starts >= 1
    /\ px.result = "returned"

\* C20: inside one stream_response the chat function is run again only
\* after the handler of the raised exception returned -1; a handler
\* returning any other code ends the loop without another run; the chat
\* function is started at most 5 times, and the only step that starts no
\* chat is the one raising RuntimeError after the fifth start; every step
\* that leaves the loop running has started one more chat, so the loop ends.
C20_RetryBounded ==
    [][px.pc = "chat" =>
        /\ px'.starts <= 5
        /\ px'.starts \in {px.starts, px.starts + 1}
        /\ (px'.starts > px.starts /\ px.starts >= 1) =>
              (px.code = -1 /\ px.raised \in ERROR_HANDLERS)
        /\ (px'.starts > px.starts /\ px'.raised \in ERROR_HANDLERS
                /\ px'.code # -1) =>
              (px'.pc = "idle" /\ px'.result = "returned")
        /\ px'.starts = px.starts =>
              (px.starts = 5 /\ px.code = -1 /\ px'.pc = "idle"
                  /\ px'.result = "RuntimeError")
        /\ px'.pc = "chat" =>
              (px'.starts = px.starts + 1 /\ px'.code = -1)
    ]_vars

C20_Witness ==
    /\ px.result = "RuntimeError"
    /\ px.starts = 5
    /\ px.code = -1

\* C21: in an uninstall_server call whose Configurator remove returned
\* false, Environment Manager remove does not take effect: the environments
\* are as they were before the call.
C21_EnvRemovedOnlyAfterConfigRemoved ==
    [][(last'.op = "uninstall" /\ ncalls' = ncalls + 1
           /\ last'.config_removed = "false") =>
          envs' = envs]_vars

\* C22: a successful update_server(S, C, W) of a server that a successful
\* install_server(S, C, W) put into the (C, W) document leaves every
\* document as it was: the entry of S is still the only one of that name and
\* carries the environment path and the command the install wrote.
C22_UpdateIdempotentOverwrite ==
    [][(last'.op = "update" /\ ncalls' = ncalls + 1 /\ last'.result.success
           /\ <<last'.server, last'.client, last'.workspace>> \in ever
           /\ docs[<<last'.client, last'.workspace>>][last'.server].present) =>
          /\ docs' = docs
          /\ docs'[<<last'.client, last'.workspace>>][last'.server].present
          /\ docs'[<<last'.client, last'.workspace>>][last'.server].environment_path
                = <<"~/.anaconda/mcp", "/">> \o last'.server
          /\ last'.result.environment_path
                = docs'[<<last'.client, last'.workspace>>][last'.server].environment_path]_vars

\* The second of two successful updates in a row of an installed server.
C22_Witness ==
    /\ last.op = "update"
    /\ last.result.success
    /\ last.repeat
    /\ <<last.server, last.client, last.workspace>> \in ever
    /\ docs[<<last.client, last.workspace>>][last.server].present

\* C23: of two install_server calls for distinct names on the same
\* (client, workspace) document that both returned success, the entry of one
\* is in the document exactly when the other did not write a document it had
\* read before the first one's write; so calls run one after the other leave
\* both entries, and only interleaved read and write steps lose one.
C23_LostUpdateOnlyWhenInterleaved ==
    \A p \in Callers : \A q \in Callers \ {p} :
        (/\ cc[p].done /\ cc[p].success
         /\ cc[q].done /\ cc[q].success
         /\ DocKey(cc[p]) = DocKey(cc[q])) =>
            (docs[DocKey(cc[q])][cc[q].server].present <=> ~cc[p].stale)

\* Both calls returned success and the document holds one entry only.
C23_Witness ==
    /\ \A p \in Callers : cc[p].done /\ cc[p].success
    /\ DocKey(cc[1]) = DocKey(cc[2])
    /\ Cardinality({s \in ServerNames : docs[DocKey(cc[1])][s].present}) = 1

\* Positions in the trace of the exception being handled where conda's own
\* printer ran, and where the assistant asked or started something.
C24_Prints == {i \in DOMAIN px.events : px.events[i].ev = "print_conda_exception"}

C24_Interactions ==
    {i \in DOMAIN px.events :
        px.events[i].ev \in {"debug_config", "confirm", "stream_response", "chat"}}

\* The original printer ran exactly once, and first.
C24_PrintedOnceFirst ==
    /\ C24_Prints = {1}
    /\ \A i \in C24_Interactions : i > 1

\* return_code 0: no chat; text 'KeyboardInterrupt': exit code 1, no chat.
C24_NoChatCases ==
    /\ (px.return_code = 0 /\ px.text # "KeyboardInterrupt") =>
           (C24_Interactions = {} /\ px.result = "returned")
    /\ px.text = "KeyboardInterrupt" =>
           (C24_Interactions = {} /\ px.result = "exit1")

\* C24 as stated: in the patched handler the original conda exception
\* printer runs exactly once per handled exception and before any assistant
\* interaction, however many times error_handler was registered; return_code
\* 0 starts no chat; text 'KeyboardInterrupt' exits with code 1 without a
\* chat.
C24_PrinterOnce_AsStated ==
    px.by = "assistant" => (C24_PrintedOnceFirst /\ C24_NoChatCases)

\* C24, amended: in the patched handler the original conda exception printer
\* runs exactly once, and before any assistant interaction, per handled
\* exception whose text is not 'KeyboardInterrupt', however many times
\* error_handler was registered; return_code 0 starts no chat; when the text
\* is 'KeyboardInterrupt' the process exits with code 1 without running the
\* original printer and without starting a chat.
C24_PrinterOnce ==
    px.by = "assistant" =>
        /\ px.text # "KeyboardInterrupt" => C24_PrintedOnceFirst
        /\ px.text = "KeyboardInterrupt" => C24_Prints = {}
        /\ C24_NoChatCases

\* An exception printed once and then chatted about, after error_handler
\* had run more than once.
C24_Witness ==
    /\ px.by = "assistant"
    /\ px.registered >= 2
    /\ px.text # "KeyboardInterrupt"
    /\ px.return_code # 0
    /\ px.starts >= 1

\* The stream_response calls in a trace, and whether the confirmation prompt
\* right before position i was answered yes.
C25_Streams(p) == {i \in DOMAIN p.events : p.events[i].ev = "stream_response"}

C25_ConfirmedYes(p, i) ==
    /\ i > 1
    /\ p.events[i - 1].ev = "confirm"
    /\ p.events[i - 1].prompt = <<"true">>

\* C25: a run of error_handler patches the conda exception handler only when
\* debug_error_mode is not 'off' and accepted_terms is not False; a chat is
\* started for an exception only by the patched handler; and in 'ask' mode
\* stream_response is called only right after the user answered yes to the
\* confirmation prompt.
C25_NoChatUnlessAllowed ==
    [][/\ (px'.patched /\ ~px.patched) =>
             (px.mode # "off" /\ px.terms # "False")
       /\ (px'.registered # px.registered
              /\ (px.mode = "off" \/ px.terms = "False")) =>
             px'.patched = px.patched
       /\ (px'.handled # px.handled /\ C25_Streams(px') # {}) =>
             /\ px.patched
             /\ px.mode # "off"
             /\ px.mode = "ask" =>
                    \A i \in C25_Streams(px') : C25_ConfirmedYes(px', i)
       /\ (px'.handled # px.handled /\ px.mode = "ask" /\ px.patched
              /\ \E i \in DOMAIN px'.events :
                     /\ px'.events[i].ev = "confirm"
                     /\ px'.events[i].prompt = <<"false">>) =>
             C25_Streams(px') = {}
      ]_vars

\* 'ask' mode, the user said yes, the chat ran.
C25_Witness ==
    /\ px.mode = "ask"
    /\ px.by = "assistant"
    /\ C25_Streams(px) # {}
    /\ px.starts >= 1

\* Positions of execute_action in the assistant's trace.
C26_Executions ==
    {i \in DOMAIN ca.events : ca.events[i][1] = "execute_action"}

\* C26: in the action flow execute_action is called only right after the
\* action plan, got before, was presented and the user confirmed it; when the
\* condamcp server cannot be ensured running, or the user declines, nothing
\* is executed and a message is returned.
C26_ExecuteOnlyAfterConfirmation ==
    /\ \A i \in C26_Executions :
          /\ i > 2
          /\ ca.events[i - 1] = <<"present_action_plan", "true">>
          /\ ca.events[i - 2][1] = "_get_action_plan"
    /\ (\E i \in DOMAIN ca.events :
           ca.events[i] \in {<<"_create_condamcp_env", "false">>,
                             <<"_start_condamcp_server", "false">>}) =>
          /\ C26_Executions = {}
          /\ ca.result =
               <<"I couldn't start the condamcp server. Please make sure it's installed.">>
    /\ (\E i \in DOMAIN ca.events :
           ca.events[i] = <<"present_action_plan", "false">>) =>
          /\ C26_Executions = {}
          /\ ca.result =
               <<"Action cancelled. Is there something else I can help you with?">>

\* A confirmed plan was executed.
C26_Witness ==
    /\ ca.flow = "action"
    /\ C26_Executions # {}

\* C27: with --action every non-empty query is handled by the action flow,
\* and with --search every non-empty query is handled by the search flow,
\* whatever keywords the query contains.
C27_FlagsForceMode ==
    (ca.pc = "assist" /\ ca.queries = 1 /\ ca.query # <<>>) =>
        /\ ca.action_flag => ca.flow = "action"
        /\ (ca.search_flag /\ ~ca.action_flag) => ca.flow = "search"

====
